---- MODULE Spec2Model ----
(***************************************************************************)
(* Model of flask_session_azure.storage_account.StorageAccount: an         *)
(* encrypted record store over an Azure table.  write() serialises a dict  *)
(* with json.dumps, encrypts it with AES in EAX mode and upserts one       *)
(* entity; read() fetches, decrypts, verifies and json.loads it; delete()  *)
(* removes the entity.  The table service is the remote collaborator: its  *)
(* state is the table (present or not) and the table's rows.               *)
(*                                                                         *)
(* Text is a sequence of character codes, bytes are sequences over 0..255, *)
(* a base64 string is a sequence of alphabet indices 0..63, with B64Pad    *)
(* for '=' and B64Other for any character outside the alphabet.            *)
(***************************************************************************)
EXTENDS Integers, Sequences, FiniteSets, TLC

(***************************************************************************)
(* Bytes and bit operations                                                *)
(***************************************************************************)
\* A sequence given by its elements, each worked out once.
Strict(f) == SubSeq(f, 1, Len(f))

RECURSIVE BitXor(_, _)
BitXor(a, b) ==
    IF a = 0 THEN b
    ELSE IF b = 0 THEN a
    ELSE (((a % 2) + (b % 2)) % 2) + (2 * BitXor(a \div 2, b \div 2))

\* str.encode("utf-8") (lines 67, 68, 84): one byte below U+0080, two bytes
\* below U+0800 (the model's text has no code point beyond that).
Utf8Char(c) ==
    IF c < 128 THEN <<c>> ELSE <<192 + (c \div 64), 128 + (c % 64)>>
RECURSIVE Utf8Range(_, _, _)
Utf8Range(s, lo, hi) ==
    IF lo > hi THEN <<>>
    ELSE IF lo = hi THEN Utf8Char(s[lo])
    ELSE LET mid == (lo + hi) \div 2
         IN  Utf8Range(s, lo, mid) \o Utf8Range(s, mid + 1, hi)
Utf8Encode(s) == Utf8Range(s, 1, Len(s))

(***************************************************************************)
(* base64 (module base64 / binascii, as called on lines 69-71, 83, 85, 87) *)
(***************************************************************************)
B64Pad == 64
B64Other == 65

\* binascii.b2a_base64: three bytes make four characters; the last group is
\* filled with zero bits and padded.
b64encode(b) ==
    LET n == Len(b)
        At(k) == IF k <= n THEN b[k] ELSE 0
    IN  Strict([j \in 1..(4 * ((n + 2) \div 3)) |->
            LET g == (j - 1) \div 4
                p == (j - 1) % 4
                b1 == At((3 * g) + 1)
                b2 == At((3 * g) + 2)
                b3 == At((3 * g) + 3)
            IN  CASE p = 0 -> b1 \div 4
                  [] p = 1 -> ((b1 % 4) * 16) + (b2 \div 16)
                  [] p = 2 -> IF (3 * g) + 2 > n THEN B64Pad
                              ELSE ((b2 % 16) * 4) + (b3 \div 64)
                  [] p = 3 -> IF (3 * g) + 3 > n THEN B64Pad ELSE b3 % 64])

\* binascii.a2b_base64 in its default (non-strict) mode.  Characters outside
\* the alphabet are skipped.  A pad is skipped too, unless the quad it stands
\* in holds three characters, or holds two and the next character is a pad
\* as well: then the input ends there.  Input that ends otherwise must hold
\* whole quads, or it is "Incorrect padding".
\* Returns [ok, bytes]; ok = FALSE stands for binascii.Error.
B64Bytes(d) ==
    Strict([k \in 1..((Len(d) * 6) \div 8) |->
        LET bit == 8 * (k - 1)
            c   == (bit \div 6) + 1
            off == bit % 6
            two == (d[c] * 64) + d[c + 1]
        IN  (two \div (IF off = 0 THEN 16 ELSE IF off = 2 THEN 4 ELSE 1)) % 256])
b64decode(s) ==
    LET t == SelectSeq(s, LAMBDA c : c # B64Other)
        QuadPos(i) == Cardinality({j \in 1..(i - 1) : t[j] # B64Pad}) % 4
        Ends(i) == /\ t[i] = B64Pad
                   /\ \/ QuadPos(i) = 3
                      \/ QuadPos(i) = 2 /\ i + 1 <= Len(t) /\ t[i + 1] = B64Pad
        ends == {i \in 1..Len(t) : Ends(i)}
        stop == IF ends = {} THEN Len(t) + 1
                ELSE CHOOSE i \in ends : \A j \in ends : i <= j
        d == SelectSeq(SubSeq(t, 1, stop - 1), LAMBDA c : c # B64Pad)
    IN  [ok |-> ends # {} \/ Len(d) % 4 = 0, bytes |-> B64Bytes(d)]

(***************************************************************************)
(* Python values and json (json.dumps on line 20, json.loads on line 46)   *)
(*                                                                         *)
(* A value is a tagged tuple: <<"none">>, <<"int", n>>, <<"str", codes>>,  *)
(* <<"list", values>>, <<"dict", items>> with items a sequence of          *)
(* <<key codes, value>> in insertion order.                                *)
(***************************************************************************)
PyNone == <<"none">>
PyInt(n) == <<"int", n>>
PyStr(s) == <<"str", s>>
PyList(xs) == <<"list", xs>>
PyDict(items) == <<"dict", items>>

\* Character codes of the JSON punctuation.
ChQuote == 34
ChBackslash == 92
ChComma == 44
ChColon == 58
ChSpace == 32
ChMinus == 45
ChZero == 48
ChLBracket == 91
ChRBracket == 93
ChLBrace == 123
ChRBrace == 125
TextNull == <<110, 117, 108, 108>>

RECURSIVE JsonDigits(_)
JsonDigits(n) ==
    IF n < 10 THEN <<ChZero + n>>
    ELSE Append(JsonDigits(n \div 10), ChZero + (n % 10))

\* py_encode_basestring_ascii: the quote and the backslash are escaped.
RECURSIVE JsonEscape(_)
JsonEscape(s) ==
    IF s = <<>> THEN <<>>
    ELSE (IF Head(s) \in {ChQuote, ChBackslash}
          THEN <<ChBackslash, Head(s)>> ELSE <<Head(s)>>) \o JsonEscape(Tail(s))

JsonString(s) == <<ChQuote>> \o JsonEscape(s) \o <<ChQuote>>

\* json.dumps with its default separators (', ' and ': ').
RECURSIVE json_dumps(_)
RECURSIVE JsonItems(_, _)
RECURSIVE JsonMembers(_, _)
JsonItems(xs, i) ==
    IF i > Len(xs) THEN <<>>
    ELSE (IF i > 1 THEN <<ChComma, ChSpace>> ELSE <<>>)
         \o json_dumps(xs[i]) \o JsonItems(xs, i + 1)
JsonMembers(items, i) ==
    IF i > Len(items) THEN <<>>
    ELSE (IF i > 1 THEN <<ChComma, ChSpace>> ELSE <<>>)
         \o JsonString(items[i][1]) \o <<ChColon, ChSpace>>
         \o json_dumps(items[i][2]) \o JsonMembers(items, i + 1)
json_dumps(v) ==
    CASE v[1] = "none" -> TextNull
      [] v[1] = "int"  -> IF v[2] < 0 THEN <<ChMinus>> \o JsonDigits(-v[2])
                          ELSE JsonDigits(v[2])
      [] v[1] = "str"  -> JsonString(v[2])
      [] v[1] = "list" -> <<ChLBracket>> \o JsonItems(v[2], 1) \o <<ChRBracket>>
      [] v[1] = "dict" -> <<ChLBrace>> \o JsonMembers(v[2], 1) \o <<ChRBrace>>

\* The decoder.  Every parser returns [ok, v, i]: i is the position after
\* what it consumed; ok = FALSE stands for json.JSONDecodeError.
JsonFail == [ok |-> FALSE, v |-> PyNone, i |-> 0]
JsonWhitespace == {ChSpace, 9, 10, 13}
IsDigit(c) == c >= ChZero /\ c <= ChZero + 9

RECURSIVE JsonSkip(_, _)
JsonSkip(t, i) ==
    IF i <= Len(t) /\ t[i] \in JsonWhitespace THEN JsonSkip(t, i + 1) ELSE i

\* i is the position after the opening quote.
RECURSIVE JsonScanString(_, _, _)
JsonScanString(t, i, acc) ==
    IF i > Len(t) THEN JsonFail
    ELSE IF t[i] = ChQuote THEN [ok |-> TRUE, v |-> PyStr(acc), i |-> i + 1]
    ELSE IF t[i] = ChBackslash THEN
        IF i + 1 <= Len(t) /\ t[i + 1] \in {ChQuote, ChBackslash}
        THEN JsonScanString(t, i + 2, Append(acc, t[i + 1]))
        ELSE JsonFail
    ELSE IF t[i] < ChSpace THEN JsonFail
    ELSE JsonScanString(t, i + 1, Append(acc, t[i]))

RECURSIVE JsonScanInt(_, _, _)
JsonScanInt(t, i, acc) ==
    IF i <= Len(t) /\ IsDigit(t[i])
    THEN JsonScanInt(t, i + 1, (acc * 10) + (t[i] - ChZero))
    ELSE [ok |-> TRUE, v |-> PyInt(acc), i |-> i]

RECURSIVE JsonValue(_, _)
RECURSIVE JsonArray(_, _, _)
RECURSIVE JsonObject(_, _, _)
\* i is the position after '[' or after a ','.
JsonArray(t, i, acc) ==
    LET j == JsonSkip(t, i)
    IN  IF j <= Len(t) /\ t[j] = ChRBracket /\ acc = <<>>
        THEN [ok |-> TRUE, v |-> PyList(acc), i |-> j + 1]
        ELSE LET e == JsonValue(t, j)
                 k == JsonSkip(t, e.i)
             IN  IF ~e.ok \/ k > Len(t) THEN JsonFail
                 ELSE IF t[k] = ChComma THEN JsonArray(t, k + 1, Append(acc, e.v))
                 ELSE IF t[k] = ChRBracket
                 THEN [ok |-> TRUE, v |-> PyList(Append(acc, e.v)), i |-> k + 1]
                 ELSE JsonFail
\* i is the position after '{' or after a ','.
JsonObject(t, i, acc) ==
    LET j == JsonSkip(t, i)
    IN  IF j > Len(t) THEN JsonFail
        ELSE IF t[j] = ChRBrace /\ acc = <<>>
        THEN [ok |-> TRUE, v |-> PyDict(acc), i |-> j + 1]
        ELSE IF t[j] # ChQuote THEN JsonFail
        ELSE LET key == JsonScanString(t, j + 1, <<>>)
                 c   == JsonSkip(t, key.i)
             IN  IF ~key.ok \/ c > Len(t) THEN JsonFail
                 ELSE IF t[c] # ChColon THEN JsonFail
                 ELSE LET e == JsonValue(t, c + 1)
                          k == JsonSkip(t, e.i)
                          items == Append(acc, <<key.v[2], e.v>>)
                      IN  IF ~e.ok \/ k > Len(t) THEN JsonFail
                          ELSE IF t[k] = ChComma THEN JsonObject(t, k + 1, items)
                          ELSE IF t[k] = ChRBrace
                          THEN [ok |-> TRUE, v |-> PyDict(items), i |-> k + 1]
                          ELSE JsonFail
JsonValue(t, i) ==
    LET j == JsonSkip(t, i)
    IN  IF j > Len(t) THEN JsonFail
        ELSE IF t[j] = ChQuote THEN JsonScanString(t, j + 1, <<>>)
        ELSE IF t[j] = ChLBrace THEN JsonObject(t, j + 1, <<>>)
        ELSE IF t[j] = ChLBracket THEN JsonArray(t, j + 1, <<>>)
        ELSE IF IsDigit(t[j]) THEN JsonScanInt(t, j, 0)
        ELSE IF t[j] = ChMinus THEN
            IF j + 1 <= Len(t) /\ IsDigit(t[j + 1])
            THEN LET n == JsonScanInt(t, j + 1, 0)
                 IN  [ok |-> TRUE, v |-> PyInt(-n.v[2]), i |-> n.i]
            ELSE JsonFail
        ELSE IF j + 3 <= Len(t) /\ SubSeq(t, j, j + 3) = TextNull
        THEN [ok |-> TRUE, v |-> PyNone, i |-> j + 4]
        ELSE JsonFail

\* json.loads of bytes: the bytes are decoded as UTF-8 (a byte of 128 or more
\* never starts a valid document here: json.dumps escapes to ASCII), one
\* value is parsed and only whitespace may follow it.
json_loads(b) ==
    IF \E i \in 1..Len(b) : b[i] >= 128 THEN JsonFail
    ELSE LET r == JsonValue(b, 1)
         IN  IF r.ok /\ JsonSkip(b, r.i) > Len(b) THEN r ELSE JsonFail

(***************************************************************************)
(* AES in EAX mode (Crypto.Cipher.AES, lines 67-68 and 84-89)              *)
(*                                                                         *)
(* The cipher is the library's; the model keeps its interface: a key of    *)
(* 16, 24 or 32 bytes or ValueError, a nonce that is not empty or          *)
(* ValueError, a keystream fixed by key and nonce that is XORed onto the   *)
(* data, and a 16-byte tag over nonce and ciphertext under the key.  The   *)
(* keystream and the tag are digests that do not collide on the model's    *)
(* values: the cipher is taken to be ideal.                                *)
(***************************************************************************)
AesKeySizes == {16, 24, 32}
EaxMacLen == 16
EaxNonceLen == 16

\* A digest of a byte string: the sum over its positions, taken by halves.
RECURSIVE DigestRange(_, _, _, _, _)
DigestRange(b, lo, hi, mult, modulus) ==
    IF lo > hi THEN 0
    ELSE IF lo = hi
    THEN (((b[lo] + 1) * (b[lo] + lo + 3)) * (((lo * mult) % 251) + 1)) % modulus
    ELSE LET mid == (lo + hi) \div 2
         IN  (DigestRange(b, lo, mid, mult, modulus)
              + DigestRange(b, mid + 1, hi, mult, modulus)) % modulus
Digest(b, mult, modulus) == (Len(b) + DigestRange(b, 1, Len(b), mult, modulus)) % modulus

KeyStreamSeed(key, nonce) ==
    (Digest(key, 7, 65521) + (3 * Digest(nonce, 11, 65521))) % 65521

CtrXor(key, nonce, data) ==
    LET seed == KeyStreamSeed(key, nonce)
    IN  Strict([i \in 1..Len(data) |->
            BitXor(data[i], ((seed \div 7) + (seed * i) + (i * 37)) % 256)])

EaxTag(key, nonce, ct) ==
    LET h1 == (Digest(key, 13, 65521) + (5 * Digest(nonce, 17, 65521))
               + (7 * Digest(ct, 19, 65521))) % 65521
        h2 == (Digest(key, 23, 65519) + (3 * Digest(nonce, 29, 65519))
               + (11 * Digest(ct, 31, 65519))) % 65519
    IN  Strict([i \in 1..EaxMacLen |->
            CASE i = 1 -> h1 \div 256
              [] i = 2 -> h1 % 256
              [] i = 3 -> h2 \div 256
              [] i = 4 -> h2 % 256
              [] OTHER -> (h1 + (h2 * i)) % 256])

\* encrypt with the tag taken over the plaintext instead of the ciphertext.
encrypt_tag_of_plaintext(data, secret_text, nonce) ==
    LET key == Utf8Encode(secret_text)
    IN  IF Len(key) \notin AesKeySizes
        THEN [exc |-> "ValueError", Data |-> <<>>, Tag |-> <<>>, Nonce |-> <<>>]
        ELSE LET plaintext == Utf8Encode(data)
                 ciphertext == CtrXor(key, nonce, plaintext)
                 tag == EaxTag(key, nonce, plaintext)
             IN  [exc |-> "", Data |-> b64encode(ciphertext),
                  Tag |-> b64encode(tag), Nonce |-> b64encode(nonce)]

\* encrypt with a secret of another length cut or refused, not always refused:
\* line 67 given the first 16 bytes of a longer secret.
encrypt_truncates_key(data, secret_text, nonce) ==
    LET whole == Utf8Encode(secret_text)
    IN  IF Len(whole) < 16
        THEN [exc |-> "ValueError", Data |-> <<>>, Tag |-> <<>>, Nonce |-> <<>>]
        ELSE LET key == IF Len(whole) \in AesKeySizes THEN whole
                        ELSE SubSeq(whole, 1, 16)
                 plaintext == Utf8Encode(data)
                 ciphertext == CtrXor(key, nonce, plaintext)
                 tag == EaxTag(key, nonce, ciphertext)
             IN  [exc |-> "", Data |-> b64encode(ciphertext),
                  Tag |-> b64encode(tag), Nonce |-> b64encode(nonce)]

\* encrypt with line 67 handing AES.new a nonce of its own, always the same.
encrypt_fixed_nonce(data, secret_text, nonce) ==
    LET key == Utf8Encode(secret_text)
        fixed == Strict([i \in 1..EaxNonceLen |-> 0])
    IN  IF Len(key) \notin AesKeySizes
        THEN [exc |-> "ValueError", Data |-> <<>>, Tag |-> <<>>, Nonce |-> <<>>]
        ELSE LET plaintext == Utf8Encode(data)
                 ciphertext == CtrXor(key, fixed, plaintext)
                 tag == EaxTag(key, fixed, ciphertext)
             IN  [exc |-> "", Data |-> b64encode(ciphertext),
                  Tag |-> b64encode(tag), Nonce |-> b64encode(fixed)]

\* encrypt (lines 60-71).  nonce is the nonce AES.new draws at random.
\* Returns [exc, Data, Tag, Nonce], the three base64 strings when exc = "".
encrypt(data, secret_text, nonce) ==
    LET key == Utf8Encode(secret_text)
    IN  IF Len(key) \notin AesKeySizes
        THEN [exc |-> "ValueError", Data |-> <<>>, Tag |-> <<>>, Nonce |-> <<>>]
        ELSE LET plaintext == Utf8Encode(data)
                 ciphertext == CtrXor(key, nonce, plaintext)
                 tag == EaxTag(key, nonce, ciphertext)
             IN  [exc |-> "", Data |-> b64encode(ciphertext),
                  Tag |-> b64encode(tag), Nonce |-> b64encode(nonce)]

\* decrypt (lines 73-92).  Returns [exc, some, plaintext]: the plaintext when
\* some, None when ~some and exc = "", the exception raised otherwise.
DecryptRaise(e) == [exc |-> e, some |-> FALSE, plaintext |-> <<>>]
\* Lines 88-92 without the call of verify.
decrypt_verify_skipped(key, nonce, data, plaintext, tag) ==
    [exc |-> "", some |-> TRUE, plaintext |-> plaintext]

\* Lines 88-92: the plaintext if the tag verifies, None on ValueError.
decrypt_verify(key, nonce, data, plaintext, tag) ==
    IF tag = EaxTag(key, nonce, data)
    THEN [exc |-> "", some |-> TRUE, plaintext |-> plaintext]
    ELSE [exc |-> "", some |-> FALSE, plaintext |-> <<>>]

decrypt(encrypted_data, verification_tag, nonce_b64, secret_text) ==
    LET nonce == b64decode(nonce_b64)
        key   == Utf8Encode(secret_text)
        data  == b64decode(encrypted_data)
        tag   == b64decode(verification_tag)
    IN  IF ~nonce.ok THEN DecryptRaise("binascii.Error")
        ELSE IF Len(key) \notin AesKeySizes \/ nonce.bytes = <<>>
        THEN DecryptRaise("ValueError")
        ELSE IF ~data.ok THEN DecryptRaise("binascii.Error")
        ELSE IF ~tag.ok THEN DecryptRaise("binascii.Error")
        ELSE decrypt_verify(key, nonce.bytes, data.bytes,
                            CtrXor(key, nonce.bytes, data.bytes), tag.bytes)

(***************************************************************************)
(* The callers' inputs                                                     *)
(***************************************************************************)
\* '{"count": 3}' and '{"a": ["x", null]}' once serialised.
ValueCount == PyDict(<< <<<<99, 111, 117, 110, 116>>, PyInt(3)>> >>)
ValueList == PyDict(<< <<<<97>>, PyList(<<PyStr(<<120>>), PyNone>>)>> >>)
Values == {ValueCount, ValueList}

\* "0123456789abcdef" and "different-key-16": 16 bytes each.  The third is
\* 16 characters, "0123456789abcde" and U+00E9, which UTF-8 makes 17 bytes.
SecretA == <<48, 49, 50, 51, 52, 53, 54, 55, 56, 57, 97, 98, 99, 100, 101, 102>>
SecretB == <<100, 105, 102, 102, 101, 114, 101, 110, 116, 45, 107, 101, 121,
             45, 49, 54>>
SecretLong == <<48, 49, 50, 51, 52, 53, 54, 55, 56, 57, 97, 98, 99, 100, 101, 233>>
Secrets == {SecretA, SecretB, SecretLong}
ValidSecret(s) == Len(Utf8Encode(s)) \in AesKeySizes

\* The nonces AES.new may draw: NumNonces of the 2^128.
NumNonces == 2
NonceOf(n) == Strict([i \in 1..EaxNonceLen |-> ((n * 17) + (i * 5)) % 256])
Nonces == {NonceOf(n) : n \in 1..NumNonces}

\* Lines 20-21 of write, and their results for the callers' inputs.
seal(data, encryption_key, nonce) ==
    encrypt(json_dumps(data), encryption_key, nonce)
Sealed ==
    [d \in Values, s \in Secrets, n \in Nonces |-> seal(d, s, n)]

\* How many times a stored field is changed behind the store's back.
MaxTamper == 1
TamperFields == {"Data", "Tag", "Nonce"}
\* A changed base64 string: another first character, a first character from
\* outside the alphabet, a character from outside the alphabet appended, the
\* last four characters cut off, or nothing left of it.
TamperKinds == {"flip", "garble", "append", "cut", "empty"}
Tampered(s, kind) ==
    CASE kind = "flip"   -> [s EXCEPT ![1] = (@ + 1) % 64]
      [] kind = "garble" -> [s EXCEPT ![1] = B64Other]
      [] kind = "append" -> Append(s, B64Other)
      [] kind = "cut"    -> SubSeq(s, 1, Len(s) - 4)
      [] kind = "empty"  -> <<>>


\* Lines 44-47 of read: [exc, ret], the value returned or the exception.
read_decode(data, encryption_key) ==
    LET decoded == decrypt(data.Data, data.Tag, data.Nonce, encryption_key)
    IN  IF decoded.exc # "" THEN [exc |-> decoded.exc, ret |-> PyNone]
        ELSE IF decoded.some
        THEN LET loaded == json_loads(decoded.plaintext)
             IN  IF loaded.ok THEN [exc |-> "", ret |-> loaded.v]
                 ELSE [exc |-> "JSONDecodeError", ret |-> PyNone]
        ELSE [exc |-> "", ret |-> PyNone]

\* The Data, Tag and Nonce a row can hold here, as written and with one field
\* changed, and what lines 44-47 make of each under each secret.
Cipher(e) == [Data |-> e.Data, Tag |-> e.Tag, Nonce |-> e.Nonce]
WrittenCiphers ==
    {Cipher(Sealed[d, s, n]) : d \in Values, s \in {x \in Secrets : ValidSecret(x)},
                               n \in Nonces}
StoredCiphers ==
    WrittenCiphers \cup
    {[c EXCEPT ![f] = Tampered(@, kind)] :
        c \in WrittenCiphers, f \in TamperFields, kind \in TamperKinds}
Decoded ==
    [c \in StoredCiphers, s \in Secrets |-> read_decode(c, s)]

(***************************************************************************)
(* The table service (azure.cosmosdb.table.TableService, line 14)          *)
(*                                                                         *)
(* Its state is [exists, rows]: whether the table exists and, for every    *)
(* (PartitionKey, RowKey), the entity stored or NoEntity.  Each call takes *)
(* fault: the service failing the request for a reason of its own (an      *)
(* AzureHttpError that is not a missing resource).  Each returns [st, exc] *)
(* and get_entity also the entity.                                         *)
(***************************************************************************)
partition_key == "session"
Keys == {"user42", "user7"}
NoEntity == [PartitionKey |-> "", RowKey |-> ""]
EmptyRows == [pr \in {partition_key} \X Keys |-> NoEntity]
Missing == "AzureMissingResourceHttpError"
OtherFault == "AzureHttpError"

\* Insert-or-merge: the properties the entity gives replace the stored ones,
\* the stored entity's other properties stay.
MergeEntity(old, new) ==
    [f \in (DOMAIN old) \cup (DOMAIN new) |->
        IF f \in DOMAIN new THEN new[f] ELSE old[f]]

insert_or_merge_entity(st, entity, fault) ==
    IF fault THEN [st |-> st, exc |-> OtherFault]
    ELSE IF ~st.exists THEN [st |-> st, exc |-> Missing]
    ELSE LET at == <<entity.PartitionKey, entity.RowKey>>
         IN  [st |-> [st EXCEPT !.rows[at] =
                         IF @ = NoEntity THEN entity ELSE MergeEntity(@, entity)],
              exc |-> ""]

\* create_table asked to fail on an existing table (fail_on_exist=True).
create_table_fail_on_exist(st, fault) ==
    IF fault THEN [st |-> st, exc |-> OtherFault]
    ELSE IF st.exists THEN [st |-> st, exc |-> "AzureConflictHttpError"]
    ELSE [st |-> [exists |-> TRUE, rows |-> EmptyRows], exc |-> ""]

\* create_table with fail_on_exist left at False: an existing table is no error.
create_table(st, fault) ==
    IF fault THEN [st |-> st, exc |-> OtherFault]
    ELSE IF st.exists THEN [st |-> st, exc |-> ""]
    ELSE [st |-> [exists |-> TRUE, rows |-> EmptyRows], exc |-> ""]

get_entity(st, pk, rk, fault) ==
    IF fault THEN [st |-> st, exc |-> OtherFault, entity |-> NoEntity]
    ELSE IF ~st.exists \/ st.rows[<<pk, rk>>] = NoEntity
    THEN [st |-> st, exc |-> Missing, entity |-> NoEntity]
    ELSE [st |-> st, exc |-> "", entity |-> st.rows[<<pk, rk>>]]

delete_entity(st, pk, rk, fault) ==
    IF fault THEN [st |-> st, exc |-> OtherFault]
    ELSE IF ~st.exists \/ st.rows[<<pk, rk>>] = NoEntity
    THEN [st |-> st, exc |-> Missing]
    ELSE [st |-> [st EXCEPT !.rows[<<pk, rk>>] = NoEntity], exc |-> ""]

(***************************************************************************)
(* StorageAccount (lines 9-58)                                             *)
(*                                                                         *)
(* fault numbers the backend call of the handler that the service fails    *)
(* (0: none).  Every handler returns [st, exc, ret, calls]: the service's  *)
(* state afterwards, the exception that reaches the caller ("" when the    *)
(* handler returns), the value returned, and the backend calls it made, in *)
(* order, each with its outcome.                                           *)
(***************************************************************************)
Call(name, exc) == [call |-> name, exc |-> exc]

\* Lines 22-28 with the Nonce left out of the entity.
write_entity_without_nonce(key, enc) ==
    [PartitionKey |-> partition_key, RowKey |-> key,
     Data |-> enc.Data, Tag |-> enc.Tag]

\* Lines 22-28 with the Tag left out of the entity.
write_entity_without_tag(key, enc) ==
    [PartitionKey |-> partition_key, RowKey |-> key,
     Data |-> enc.Data, Nonce |-> enc.Nonce]

\* Lines 22-28.
write_entity(key, enc) ==
    [PartitionKey |-> partition_key, RowKey |-> key,
     Data |-> enc.Data, Tag |-> enc.Tag, Nonce |-> enc.Nonce]

\* Lines 31-35 without line 35: the table is created, the upsert not retried.
write_except_no_retry(st, flag, entity, fault, calls) ==
    IF ~flag
    THEN [st |-> st, exc |-> Missing, ret |-> PyNone, calls |-> calls]
    ELSE LET made == create_table(st, fault = 2)
         IN  [st |-> made.st, exc |-> made.exc, ret |-> PyNone,
              calls |-> Append(calls, Call("create_table", made.exc))]

\* Lines 31-35 without lines 32-33: the table is created whatever the flag.
write_except_always_creates(st, flag, entity, fault, calls) ==
    LET made == create_table(st, fault = 2)
        c2 == Append(calls, Call("create_table", made.exc))
    IN  IF made.exc # ""
        THEN [st |-> made.st, exc |-> made.exc, ret |-> PyNone, calls |-> c2]
        ELSE LET again == insert_or_merge_entity(made.st, entity, fault = 3)
             IN  [st |-> again.st, exc |-> again.exc, ret |-> PyNone,
                  calls |-> Append(c2, Call("insert_or_merge_entity", again.exc))]

\* Lines 31-35 with the retry retried: a failed second upsert is tried again.
write_except_retry_again(st, flag, entity, fault, calls) ==
    IF ~flag
    THEN [st |-> st, exc |-> Missing, ret |-> PyNone, calls |-> calls]
    ELSE LET made == create_table(st, fault = 2)
             c2 == Append(calls, Call("create_table", made.exc))
         IN  IF made.exc # ""
             THEN [st |-> made.st, exc |-> made.exc, ret |-> PyNone, calls |-> c2]
             ELSE LET again == insert_or_merge_entity(made.st, entity, fault = 3)
                      c3 == Append(c2, Call("insert_or_merge_entity", again.exc))
                      third == insert_or_merge_entity(again.st, entity, FALSE)
                  IN  IF again.exc = ""
                      THEN [st |-> again.st, exc |-> "", ret |-> PyNone,
                            calls |-> c3]
                      ELSE [st |-> third.st, exc |-> third.exc, ret |-> PyNone,
                            calls |-> Append(c3, Call("insert_or_merge_entity",
                                                      third.exc))]

\* Lines 31-35: the handler of AzureMissingResourceHttpError.
write_except(st, flag, entity, fault, calls) ==
    IF ~flag
    THEN [st |-> st, exc |-> Missing, ret |-> PyNone, calls |-> calls]
    ELSE LET made == create_table(st, fault = 2)
             c2 == Append(calls, Call("create_table", made.exc))
         IN  IF made.exc # ""
             THEN [st |-> made.st, exc |-> made.exc, ret |-> PyNone, calls |-> c2]
             ELSE LET again == insert_or_merge_entity(made.st, entity, fault = 3)
                  IN  [st |-> again.st, exc |-> again.exc, ret |-> PyNone,
                       calls |-> Append(c2, Call("insert_or_merge_entity", again.exc))]

\* Lines 16-35 with line 31 catching every error of the service.
write_catches_all(st, flag, key, data, encryption_key, nonce, fault) ==
    LET enc == Sealed[data, encryption_key, nonce]
    IN  IF enc.exc # ""
        THEN [st |-> st, exc |-> enc.exc, ret |-> PyNone, calls |-> <<>>]
        ELSE LET entity == write_entity(key, enc)
                 first  == insert_or_merge_entity(st, entity, fault = 1)
                 calls  == <<Call("insert_or_merge_entity", first.exc)>>
             IN  IF first.exc # ""
                 THEN write_except(first.st, flag, entity, fault, calls)
                 ELSE [st |-> first.st, exc |-> first.exc, ret |-> PyNone,
                       calls |-> calls]

\* Lines 16-35 with the secret put into the entity of lines 22-28.
write_stores_secret(st, flag, key, data, encryption_key, nonce, fault) ==
    LET enc == Sealed[data, encryption_key, nonce]
    IN  IF enc.exc # ""
        THEN [st |-> st, exc |-> enc.exc, ret |-> PyNone, calls |-> <<>>]
        ELSE LET entity == MergeEntity(write_entity(key, enc),
                                       [Secret |-> encryption_key])
                 first  == insert_or_merge_entity(st, entity, fault = 1)
                 calls  == <<Call("insert_or_merge_entity", first.exc)>>
             IN  IF first.exc = Missing
                 THEN write_except(first.st, flag, entity, fault, calls)
                 ELSE [st |-> first.st, exc |-> first.exc, ret |-> PyNone,
                       calls |-> calls]

\* Lines 16-35.
write(st, flag, key, data, encryption_key, nonce, fault) ==
    LET enc == Sealed[data, encryption_key, nonce]
    IN  IF enc.exc # ""
        THEN [st |-> st, exc |-> enc.exc, ret |-> PyNone, calls |-> <<>>]
        ELSE LET entity == write_entity(key, enc)
                 first  == insert_or_merge_entity(st, entity, fault = 1)
                 calls  == <<Call("insert_or_merge_entity", first.exc)>>
             IN  IF first.exc = Missing
                 THEN write_except(first.st, flag, entity, fault, calls)
                 ELSE [st |-> first.st, exc |-> first.exc, ret |-> PyNone,
                       calls |-> calls]

\* Lines 37-49 without lines 48-49: the missing resource reaches the caller.
read_missing_raises(st, key, encryption_key, fault) ==
    LET got   == get_entity(st, partition_key, key, fault = 1)
        calls == <<Call("get_entity", got.exc)>>
    IN  IF got.exc # ""
        THEN [st |-> got.st, exc |-> got.exc, ret |-> PyNone, calls |-> calls]
        ELSE LET v == read_decode(Cipher(got.entity), encryption_key)
             IN  [st |-> got.st, exc |-> v.exc, ret |-> v.ret, calls |-> calls]

\* Lines 37-49 with the table created at line 49 when it is missing.
read_creates_table(st, key, encryption_key, fault) ==
    LET got   == get_entity(st, partition_key, key, fault = 1)
        calls == <<Call("get_entity", got.exc)>>
    IN  IF got.exc = Missing
        THEN LET made == create_table(got.st, FALSE)
             IN  [st |-> made.st, exc |-> "", ret |-> PyNone,
                  calls |-> Append(calls, Call("create_table", made.exc))]
        ELSE IF got.exc # ""
        THEN [st |-> got.st, exc |-> got.exc, ret |-> PyNone, calls |-> calls]
        ELSE LET v == read_decode(Cipher(got.entity), encryption_key)
             IN  [st |-> got.st, exc |-> v.exc, ret |-> v.ret, calls |-> calls]

\* Lines 37-49.
read(st, key, encryption_key, fault) ==
    LET got   == get_entity(st, partition_key, key, fault = 1)
        calls == <<Call("get_entity", got.exc)>>
    IN  IF got.exc = Missing
        THEN [st |-> got.st, exc |-> "", ret |-> PyNone, calls |-> calls]
        ELSE IF got.exc # ""
        THEN [st |-> got.st, exc |-> got.exc, ret |-> PyNone, calls |-> calls]
        ELSE IF ~({"Data", "Tag", "Nonce"} \subseteq DOMAIN got.entity)
        THEN [st |-> got.st, exc |-> "KeyError", ret |-> PyNone, calls |-> calls]
        ELSE LET c == Cipher(got.entity)
                 v == IF <<c, encryption_key>> \in DOMAIN Decoded
                      THEN Decoded[c, encryption_key]
                      ELSE read_decode(c, encryption_key)
             IN  [st |-> got.st, exc |-> v.exc, ret |-> v.ret, calls |-> calls]

\* Lines 51-58 without lines 57-58: the missing resource reaches the caller.
delete_missing_raises(st, key, fault) ==
    LET gone == delete_entity(st, partition_key, key, fault = 1)
    IN  [st |-> gone.st, exc |-> gone.exc, ret |-> PyNone,
         calls |-> <<Call("delete_entity", gone.exc)>>]

\* Lines 51-58 asking the service for the entity instead of deleting it.
delete_only_looks(st, key, fault) ==
    LET gone  == get_entity(st, partition_key, key, fault = 1)
        calls == <<Call("delete_entity", gone.exc)>>
    IN  IF gone.exc = Missing
        THEN [st |-> gone.st, exc |-> "", ret |-> PyNone, calls |-> calls]
        ELSE [st |-> gone.st, exc |-> gone.exc, ret |-> PyNone, calls |-> calls]

\* Lines 51-58 with line 56 deleting by partition, not by partition and key.
delete_clears_partition(st, key, fault) ==
    LET gone  == delete_entity(st, partition_key, key, fault = 1)
        calls == <<Call("delete_entity", gone.exc)>>
    IN  IF gone.exc = Missing
        THEN [st |-> gone.st, exc |-> "", ret |-> PyNone, calls |-> calls]
        ELSE IF gone.exc # ""
        THEN [st |-> gone.st, exc |-> gone.exc, ret |-> PyNone, calls |-> calls]
        ELSE [st |-> [gone.st EXCEPT !.rows = EmptyRows], exc |-> "",
              ret |-> PyNone, calls |-> calls]

\* Lines 51-58.
delete(st, key, fault) ==
    LET gone  == delete_entity(st, partition_key, key, fault = 1)
        calls == <<Call("delete_entity", gone.exc)>>
    IN  IF gone.exc = Missing
        THEN [st |-> gone.st, exc |-> "", ret |-> PyNone, calls |-> calls]
        ELSE [st |-> gone.st, exc |-> gone.exc, ret |-> PyNone, calls |-> calls]

(***************************************************************************)
(* State                                                                   *)
(*                                                                         *)
(* create_table_if_not_exists: the instance's flag (line 13).              *)
(* table_service: the state of the table behind __table_service.           *)
(* last: the latest event, with the handler's inputs and outcome; for a    *)
(*   write also prev, what written held for the key before it.             *)
(* written: per key, what the latest write or delete that returned did:    *)
(*   status "never", "written" or, for a delete after a write, "deleted";  *)
(*   for "written" the value, the secret and the row to expect, and        *)
(*   intact = FALSE once a field of the stored entity was changed behind   *)
(*   the store's back.                                                     *)
(* tampers: the number of such changes so far.                             *)
(* drawn: the nonces the random source behind AES.new has returned, where  *)
(*   the random source is taken as ideal (no 16 bytes returned twice).     *)
(* used: the pairs of secret and Nonce field that writes have stored.      *)
(* threads: the callers that share the instance, each with the call it is  *)
(*   in: pc is where it stands ("idle" before the call, "create" before    *)
(*   line 34, "retry" before line 35, "done" after the call), then the     *)
(*   call's inputs, the nonce drawn, the outcome and the service calls.    *)
(* applied: per key, the row of the latest upsert the service applied for  *)
(*   a caller, NoEntity after a delete it served.                          *)
(***************************************************************************)
VARIABLES create_table_if_not_exists, table_service, last, written, tampers,
          drawn, used, threads, applied

\* What only some of the specifications below record.
aside == <<drawn, used>>
callers == <<threads, applied>>
vars == <<create_table_if_not_exists, table_service, last, written, tampers,
          aside, callers>>

\* The callers that share one instance.
NumThreads == 3
Threads == 1..NumThreads
Idle ==
    [pc |-> "idle", op |-> "", key |-> "", value |-> PyNone, secret |-> <<>>,
     nonce |-> <<>>, exc |-> "", ret |-> PyNone, calls |-> <<>>]

Event(op, key, secret, value, fault, prev, r) ==
    [op |-> op, key |-> key, secret |-> secret, value |-> value,
     fault |-> fault, prev |-> prev, exc |-> r.exc, ret |-> r.ret,
     calls |-> r.calls]
NoResult == [exc |-> "", ret |-> PyNone, calls |-> <<>>]
NeverWritten ==
    [status |-> "never", value |-> PyNone, secret |-> <<>>,
     entity |-> NoEntity, intact |-> TRUE]
Row(key) == table_service.rows[<<partition_key, key>>]
\* The row of section 6 of the design for a key and the three derived fields.
Stored(key, enc) ==
    [PartitionKey |-> partition_key, RowKey |-> key,
     Data |-> enc.Data, Tag |-> enc.Tag, Nonce |-> enc.Nonce]

\* Line 10-14: a new instance; the table may or may not exist yet.
Init ==
    /\ create_table_if_not_exists \in BOOLEAN
    /\ table_service \in {[exists |-> e, rows |-> EmptyRows] : e \in BOOLEAN}
    /\ last = Event("init", "", <<>>, PyNone, 0, NeverWritten, NoResult)
    /\ written = [k \in Keys |-> NeverWritten]
    /\ tampers = 0
    /\ drawn = {}
    /\ used = {}
    /\ threads = [t \in Threads |-> Idle]
    /\ applied = [k \in Keys |-> NoEntity]

\* A call of write in which AES.new draws nonce.
WriteCall(key, data, encryption_key, nonce, fault) ==
    LET r == write(table_service, create_table_if_not_exists, key, data,
                   encryption_key, nonce, fault)
    IN  /\ fault <= Len(r.calls)
        /\ table_service' = r.st
        /\ last' = Event("write", key, encryption_key, data, fault, written[key], r)
        /\ written' =
             IF r.exc = ""
             THEN [written EXCEPT ![key] =
                     [status |-> "written", value |-> data,
                      secret |-> encryption_key,
                      entity |-> Stored(key, Sealed[data, encryption_key, nonce]),
                      intact |-> TRUE]]
             ELSE written
        /\ UNCHANGED <<create_table_if_not_exists, tampers>>

\* The random source left free: any 16 bytes, also the same twice.
Write(key, data, encryption_key, nonce, fault) ==
    /\ WriteCall(key, data, encryption_key, nonce, fault)
    /\ UNCHANGED <<aside, callers>>

\* Line 67, AES.new without a nonce: the cipher draws 16 random bytes, which
\* an ideal source has not returned before.
get_random_bytes(history) == Nonces \ history

\* The random source taken as ideal: every call of encrypt draws once.
WriteFresh(key, data, encryption_key, fault) ==
    \E nonce \in get_random_bytes(drawn) :
        /\ WriteCall(key, data, encryption_key, nonce, fault)
        /\ drawn' = drawn \cup {nonce}
        /\ used' = IF last'.exc = ""
                   THEN used \cup {<<encryption_key,
                       table_service'.rows[<<partition_key, key>>].Nonce>>}
                   ELSE used
        /\ UNCHANGED callers

Read(key, encryption_key, fault) ==
    LET r == read(table_service, key, encryption_key, fault)
    IN  /\ table_service' = r.st
        /\ last' = Event("read", key, encryption_key, PyNone, fault, NeverWritten, r)
        /\ UNCHANGED <<create_table_if_not_exists, written, tampers, aside,
                       callers>>

Delete(key, fault) ==
    LET r == delete(table_service, key, fault)
    IN  /\ table_service' = r.st
        /\ last' = Event("delete", key, <<>>, PyNone, fault, NeverWritten, r)
        /\ written' = IF r.exc = "" /\ written[key].status # "never"
                      THEN [written EXCEPT ![key] =
                              [NeverWritten EXCEPT !.status = "deleted"]]
                      ELSE written
        /\ UNCHANGED <<create_table_if_not_exists, tampers, aside, callers>>

\* Somebody else with access to the table changes one field of a stored entity.
Tamper(key, field, kind) ==
    /\ tampers < MaxTamper
    /\ table_service.exists
    /\ Row(key) # NoEntity
    /\ table_service' =
         [table_service EXCEPT !.rows[<<partition_key, key>>][field] =
             Tampered(@, kind)]
    /\ last' = [Event("tamper", key, <<>>, PyNone, 0, NeverWritten, NoResult)
                  EXCEPT !.calls = <<Call(field, kind)>>]
    /\ written' = [written EXCEPT ![key].intact = FALSE]
    /\ tampers' = tampers + 1
    /\ UNCHANGED <<create_table_if_not_exists, aside, callers>>

Next ==
    \/ \E key \in Keys, data \in Values, s \in Secrets, n \in Nonces,
          f \in 0..(IF table_service.exists THEN 1 ELSE 3) :
          Write(key, data, s, n, f)
    \/ \E key \in Keys, s \in Secrets, f \in 0..1 : Read(key, s, f)
    \/ \E key \in Keys, f \in 0..1 : Delete(key, f)

Spec == Init /\ [][Next]_vars

\* The store used for one key while somebody else changes what is stored; the
\* service itself does not fail.
TamperKey == "user42"
NextTamper ==
    \/ \E data \in Values, s \in Secrets, n \in Nonces :
          Write(TamperKey, data, s, n, 0)
    \/ \E s \in Secrets : Read(TamperKey, s, 0)
    \/ Delete(TamperKey, 0)
    \/ \E field \in TamperFields, kind \in TamperKinds :
          Tamper(TamperKey, field, kind)

SpecTamper == Init /\ [][NextTamper]_vars

\* The store with the random source taken as ideal; the service may fail.
NextFresh ==
    \/ \E key \in Keys, data \in Values, s \in Secrets,
          f \in 0..(IF table_service.exists THEN 1 ELSE 3) :
          WriteFresh(key, data, s, f)
    \/ \E key \in Keys, s \in Secrets : Read(key, s, 0)
    \/ \E key \in Keys : Delete(key, 0)

SpecFresh == Init /\ [][NextFresh]_vars

(***************************************************************************)
(* Callers that share the instance.  A call is as many steps as it makes   *)
(* requests to the service, each request served at once; what a caller     *)
(* does before, between and after its requests touches nothing shared.     *)
(* The service fails no request for a reason of its own, the callers'      *)
(* secrets are of valid length and the random source is ideal.             *)
(***************************************************************************)
CallerSecrets == {s \in Secrets : ValidSecret(s)}
Entity(t) ==
    write_entity(threads[t].key,
                 Sealed[threads[t].value, threads[t].secret, threads[t].nonce])
Expected(t) ==
    Stored(threads[t].key,
           Sealed[threads[t].value, threads[t].secret, threads[t].nonce])
Others == <<last, written, tampers, used>>
\* A caller whose call of one request has returned or raised.
Returned(op, key, secret, r) ==
    [Idle EXCEPT !.pc = "done", !.op = op, !.key = key, !.secret = secret,
                 !.exc = r.exc, !.ret = r.ret, !.calls = r.calls]
\* The callers are numbered in the order in which their calls begin.
Begins(t) ==
    /\ threads[t].pc = "idle"
    /\ \A u \in 1..(t - 1) : threads[u].pc # "idle"

\* Lines 20-33: the entity is made and the upsert requested; when the table
\* is missing the caller re-raises or goes on to line 34.  Which 16 bytes the
\* random source returns plays no part here, only that they are new.
ThreadWrite(t, key, data, encryption_key) ==
    /\ Begins(t)
    /\ get_random_bytes(drawn) # {}
    /\ LET nonce  == CHOOSE n \in get_random_bytes(drawn) : TRUE
       IN LET enc    == Sealed[data, encryption_key, nonce]
              first  == insert_or_merge_entity(table_service,
                                               write_entity(key, enc), FALSE)
              goesOn == first.exc = Missing /\ create_table_if_not_exists
          IN  /\ table_service' = first.st
              /\ threads' = [threads EXCEPT ![t] =
                    [pc |-> IF goesOn THEN "create" ELSE "done",
                     op |-> "write", key |-> key, value |-> data,
                     secret |-> encryption_key, nonce |-> nonce,
                     exc |-> IF goesOn THEN "" ELSE first.exc,
                     ret |-> PyNone,
                     calls |-> <<Call("insert_or_merge_entity", first.exc)>>]]
              /\ applied' = IF first.exc = ""
                            THEN [applied EXCEPT ![key] = Stored(key, enc)]
                            ELSE applied
              /\ drawn' = drawn \cup {nonce}
    /\ UNCHANGED <<create_table_if_not_exists, Others>>

\* Line 34.
ThreadCreate(t) ==
    /\ threads[t].pc = "create"
    /\ LET made == create_table(table_service, FALSE)
       IN  /\ table_service' = made.st
           /\ threads' = [threads EXCEPT ![t] =
                 [@ EXCEPT !.pc = IF made.exc = "" THEN "retry" ELSE "done",
                           !.exc = made.exc,
                           !.calls = Append(@, Call("create_table", made.exc))]]
    /\ UNCHANGED <<create_table_if_not_exists, Others, drawn, applied>>

\* Line 35.
ThreadRetry(t) ==
    /\ threads[t].pc = "retry"
    /\ LET again == insert_or_merge_entity(table_service, Entity(t), FALSE)
       IN  /\ table_service' = again.st
           /\ threads' = [threads EXCEPT ![t] =
                 [@ EXCEPT !.pc = "done", !.exc = again.exc,
                           !.calls = Append(@, Call("insert_or_merge_entity",
                                                    again.exc))]]
           /\ applied' = IF again.exc = ""
                         THEN [applied EXCEPT ![threads[t].key] = Expected(t)]
                         ELSE applied
    /\ UNCHANGED <<create_table_if_not_exists, Others, drawn>>

\* Lines 37-49: one request, then the caller's own decoding.
ThreadRead(t, key, encryption_key) ==
    /\ Begins(t)
    /\ \E r \in {read(table_service, key, encryption_key, 0)} :
           /\ table_service' = r.st
           /\ threads' = [threads EXCEPT ![t] =
                              Returned("read", key, encryption_key, r)]
    /\ UNCHANGED <<create_table_if_not_exists, Others, drawn, applied>>

\* Lines 51-58: one request.
ThreadDelete(t, key) ==
    /\ Begins(t)
    /\ \E r \in {delete(table_service, key, 0)} :
           /\ table_service' = r.st
           /\ threads' = [threads EXCEPT ![t] =
                              Returned("delete", key, <<>>, r)]
           /\ applied' = IF r.exc = ""
                         THEN [applied EXCEPT ![key] = NoEntity]
                         ELSE applied
    /\ UNCHANGED <<create_table_if_not_exists, Others, drawn>>

NextConc ==
    \E t \in Threads :
        \/ \E key \in Keys, data \in Values, s \in CallerSecrets :
              ThreadWrite(t, key, data, s)
        \/ ThreadCreate(t)
        \/ ThreadRetry(t)
        \/ \E key \in Keys, s \in CallerSecrets : ThreadRead(t, key, s)
        \/ \E key \in Keys : ThreadDelete(t, key)

SpecConc == Init /\ [][NextConc]_vars

(***************************************************************************)
(* Properties                                                              *)
(***************************************************************************)
\* What the latest event, a call of the store, was about.
LastKey == written[last.key]
Served == last.fault = 0
ReturnedNone == last.exc = "" /\ last.ret = PyNone

\* C1: a read that follows a write that returned, with the secret of that
\* write and with no write or delete of the key (nor a change behind the
\* store's back, nor a failing service) in between, returns the value written.
RoundTrip ==
    (/\ last.op = "read" /\ Served
     /\ LastKey.status = "written" /\ LastKey.intact
     /\ last.secret = LastKey.secret)
    => (last.exc = "" /\ last.ret = LastKey.value)

RoundTripWitness ==
    /\ last.op = "read" /\ Served
    /\ LastKey.status = "written" /\ LastKey.intact
    /\ last.secret = LastKey.secret
    /\ last.ret = ValueList

\* C2: after a write under one secret, a read of the key under another secret
\* of a valid key length returns None: it neither raises nor returns a value.
WrongKey ==
    (/\ last.op = "read" /\ Served
     /\ LastKey.status = "written" /\ LastKey.intact
     /\ last.secret # LastKey.secret /\ ValidSecret(last.secret))
    => ReturnedNone

WrongKeyWitness ==
    /\ last.op = "read" /\ Served
    /\ LastKey.status = "written" /\ LastKey.intact
    /\ LastKey.secret = SecretA /\ last.secret = SecretB
    /\ ReturnedNone

\* The stored Data or Tag of the key is no longer what the write stored.
Changed(key) ==
    /\ table_service.exists /\ Row(key) # NoEntity
    /\ \/ Row(key).Data # written[key].entity.Data
       \/ Row(key).Tag # written[key].entity.Tag

\* C3: once the stored Data or Tag of a record was changed in any way, a read
\* of the key with the secret of the write returns None: it does not raise
\* and it returns no value.
TamperDetected ==
    (/\ last.op = "read" /\ Served
     /\ LastKey.status = "written" /\ Changed(last.key)
     /\ last.secret = LastKey.secret)
    => ReturnedNone

\* What does hold of a changed record: a read never returns a value other
\* than the one written, and a field that still decodes, to other bytes,
\* makes it return None.
TamperNeverForges ==
    (/\ last.op = "read" /\ Served
     /\ LastKey.status = "written" /\ Changed(last.key))
    => /\ last.ret \in {PyNone, LastKey.value}
       /\ (/\ ValidSecret(last.secret)
           /\ b64decode(Row(last.key).Data).ok /\ b64decode(Row(last.key).Tag).ok
           /\ \/ b64decode(Row(last.key).Data) # b64decode(LastKey.entity.Data)
              \/ b64decode(Row(last.key).Tag) # b64decode(LastKey.entity.Tag))
          => ReturnedNone

\* The write of the latest step, begun with the table absent or present.
WriteStep == last'.op = "write" /\ ValidSecret(last'.secret)
RowAfter == table_service'.rows[<<partition_key, last'.key>>]
CallsOf(name) == {i \in DOMAIN last.calls : last.calls[i].call = name}

\* C4: with create_table_if_not_exists set and the table absent, a write (of
\* a valid secret, the service failing no request for a reason of its own)
\* returns, the table exists afterwards and holds the row, and a read of the
\* key with the secret then returns the value written.
AutoCreate ==
    [][(/\ WriteStep /\ last'.fault = 0
        /\ ~table_service.exists /\ create_table_if_not_exists)
       => (/\ last'.exc = ""
           /\ table_service'.exists
           /\ RowAfter = written'[last'.key].entity
           /\ read(table_service', last'.key, last'.secret, 0).exc = ""
           /\ read(table_service', last'.key, last'.secret, 0).ret = last'.value)]_vars

AutoCreateWitness ==
    /\ last.op = "write" /\ last.exc = "" /\ create_table_if_not_exists
    /\ last.calls = <<Call("insert_or_merge_entity", Missing),
                      Call("create_table", ""),
                      Call("insert_or_merge_entity", "")>>
    /\ table_service.exists /\ Row(last.key) = LastKey.entity

\* C5: with create_table_if_not_exists not set and the table absent, a write
\* raises the service's error to the caller (the missing resource, when the
\* service fails for no other reason), does not call create_table and leaves
\* the service as it was: no table, no row.
NoAutoCreate ==
    [][(/\ WriteStep /\ ~table_service.exists /\ ~create_table_if_not_exists)
       => (/\ last'.exc \in {Missing, OtherFault}
           /\ (last'.fault = 0 => last'.exc = Missing)
           /\ \A i \in DOMAIN last'.calls : last'.calls[i].call # "create_table"
           /\ table_service' = table_service
           /\ ~table_service'.exists)]_vars

NoAutoCreateWitness ==
    /\ last.op = "write" /\ ValidSecret(last.secret) /\ last.fault = 0
    /\ ~create_table_if_not_exists /\ ~table_service.exists
    /\ last.exc = Missing
    /\ last.calls = <<Call("insert_or_merge_entity", Missing)>>

\* C6: one write makes at most two upserts and at most one create_table; a
\* second upsert comes only after the first raised the missing resource and
\* create_table returned; what the second upsert raises reaches the caller
\* and no call follows it.
BoundedRetry ==
    last.op = "write" =>
        /\ Cardinality(CallsOf("insert_or_merge_entity")) <= 2
        /\ Cardinality(CallsOf("create_table")) <= 1
        /\ Len(last.calls) <= 3
        /\ Cardinality(CallsOf("insert_or_merge_entity")) = 2 =>
              /\ Len(last.calls) = 3
              /\ last.calls[1] = Call("insert_or_merge_entity", Missing)
              /\ last.calls[2] = Call("create_table", "")
              /\ last.calls[3].call = "insert_or_merge_entity"
              /\ last.exc = last.calls[3].exc

BoundedRetryWitness ==
    /\ last.op = "write"
    /\ last.calls = <<Call("insert_or_merge_entity", Missing),
                      Call("create_table", ""),
                      Call("insert_or_merge_entity", OtherFault)>>
    /\ last.exc = OtherFault

\* C7: a read of a key that has no row, or whose table does not exist,
\* returns None and does not raise, whatever the key and the secret.
ReadMissing ==
    (/\ last.op = "read" /\ Served
     /\ (~table_service.exists \/ Row(last.key) = NoEntity))
    => ReturnedNone

ReadMissingWitness ==
    /\ last.op = "read" /\ Served /\ ~table_service.exists
    /\ last.secret = SecretLong
    /\ ReturnedNone

\* C8: a delete of a key that has no row, or whose table does not exist,
\* returns without raising and leaves the service as it was; and after any
\* delete that the service served, a second delete of the key returns too
\* and changes nothing.
IdempotentDelete ==
    [][(last'.op = "delete" /\ last'.fault = 0)
       => (/\ last'.exc = ""
           /\ (~table_service.exists \/ Row(last'.key) = NoEntity)
                 => table_service' = table_service
           /\ delete(table_service', last'.key, 0).exc = ""
           /\ delete(table_service', last'.key, 0).st = table_service')]_vars

IdempotentDeleteWitness ==
    /\ last.op = "delete" /\ Served /\ last.exc = ""
    /\ last.calls = <<Call("delete_entity", Missing)>>
    /\ table_service.exists

\* C9: a delete that returns leaves no row under the key, and from a delete
\* after a write until the next write of the key a read returns None, under
\* every secret.
DeleteRemoves ==
    /\ (last.op = "delete" /\ last.exc = "")
          => (~table_service.exists \/ Row(last.key) = NoEntity)
    /\ (last.op = "read" /\ Served /\ LastKey.status = "deleted")
          => ReturnedNone

DeleteRemovesWitness ==
    /\ last.op = "read" /\ Served /\ LastKey.status = "deleted"
    /\ last.secret = SecretA
    /\ ReturnedNone

\* C10: a write over a key written before leaves one row under the key, and
\* its Data, Tag and Nonce are all those of this write; a read with the
\* secret of this write returns its value, and no read, under any secret,
\* returns another value.
OverwriteInPlace ==
    (last.op = "write" /\ last.exc = "" /\ last.prev.status = "written")
    => /\ table_service.exists
       /\ Row(last.key) = LastKey.entity
       /\ LastKey.value = last.value /\ LastKey.secret = last.secret
       /\ read(table_service, last.key, last.secret, 0).exc = ""
       /\ read(table_service, last.key, last.secret, 0).ret = last.value
       /\ \A s \in Secrets :
             read(table_service, last.key, s, 0).ret \in {PyNone, last.value}

OverwriteInPlaceWitness ==
    /\ last.op = "write" /\ last.exc = "" /\ last.prev.status = "written"
    /\ last.prev.value # last.value
    /\ last.prev.secret # last.secret
    /\ last.prev.entity.Nonce # Row(last.key).Nonce
    /\ Row(last.key) = LastKey.entity

\* C11: with the random source ideal, the Nonce a write stores was stored
\* by no earlier write under the same secret, also when key, value and
\* secret are those of the write before; it encodes the 16 bytes drawn in
\* this call, and it is not the Nonce of the row the key held before.
NonceFresh ==
    [][(last'.op = "write" /\ last'.exc = "")
       => (/\ <<last'.secret, RowAfter.Nonce>> \notin used
           /\ b64decode(RowAfter.Nonce).bytes \in drawn' \ drawn
           /\ Row(last'.key) # NoEntity
                 => RowAfter.Nonce # Row(last'.key).Nonce)]_vars

NonceFreshWitness ==
    /\ last.op = "write" /\ last.exc = ""
    /\ last.prev.status = "written"
    /\ last.prev.value = last.value /\ last.prev.secret = last.secret
    /\ Row(last.key).Data # last.prev.entity.Data
    /\ Cardinality(used) = 2

\* C13: when a call the service is asked for by write or delete (the upsert,
\* create_table, the retried upsert, delete_entity) fails with an error that
\* is not the missing resource, that error reaches the caller, and it was
\* the handler's last call: nothing is retried or created in response.
ErrorsPropagate ==
    (/\ last.op \in {"write", "delete"}
     /\ \E i \in DOMAIN last.calls : last.calls[i].exc = OtherFault)
    => /\ last.exc = OtherFault
       /\ last.calls[Len(last.calls)].exc = OtherFault
       /\ \A i \in 1..(Len(last.calls) - 1) : last.calls[i].exc # OtherFault
       /\ last.fault = Len(last.calls)

ErrorsPropagateWitness ==
    /\ last.op = "write" /\ last.exc = OtherFault
    /\ last.calls = <<Call("insert_or_merge_entity", Missing),
                      Call("create_table", OtherFault)>>
    /\ ~table_service.exists

\* C14: encrypt with a secret that is not 16, 24 or 32 bytes long raises
\* ValueError, whatever the nonce, and a write with such a secret raises it
\* with no call to the service made and the table and its rows as before.
InvalidSecret ==
    [][(last'.op = "write" /\ ~ValidSecret(last'.secret))
       => (/\ \A n \in Nonces :
                encrypt(json_dumps(last'.value), last'.secret, n).exc
                   = "ValueError"
           /\ last'.exc = "ValueError"
           /\ last'.calls = <<>>
           /\ table_service' = table_service
           /\ written' = written)]_vars

InvalidSecretWitness ==
    /\ last.op = "write" /\ last.secret = SecretLong
    /\ last.exc = "ValueError" /\ last.calls = <<>>
    /\ table_service.exists
    /\ last.prev.status = "written" /\ Row(last.key) = last.prev.entity

\* C16: every row of the table has the instance's partition_key as its
\* PartitionKey, the key written as its RowKey, and beside them exactly
\* Data, Tag and Nonce, which are those encrypt derived; no property of a
\* row is a secret, as text or as base64.
SecretForms == Secrets \cup {b64encode(Utf8Encode(s)) : s \in Secrets}
ReadDeleteFrame ==
    [][(last'.op \in {"read", "delete"})
       => (/\ table_service'.exists = table_service.exists
           /\ \A i \in DOMAIN last'.calls : last'.calls[i].call # "create_table"
           /\ last'.op = "read" => table_service' = table_service)]_vars

ReadDeleteFrameWitness ==
    /\ last.op = "read" /\ Served
    /\ create_table_if_not_exists /\ ~table_service.exists
    /\ last.calls = <<Call("get_entity", Missing)>>

\* C18: a write and a delete of a key leave the row of every other key as
\* it was, and with it what a read of that key gives under every secret.
KeyIsolation ==
    [][(last'.op \in {"write", "delete"})
       => \A k2 \in Keys \ {last'.key} :
            /\ table_service'.rows[<<partition_key, k2>>]
                  = table_service.rows[<<partition_key, k2>>]
            /\ \A s \in Secrets :
                  /\ read(table_service', k2, s, 0).ret
                        = read(table_service, k2, s, 0).ret
                  /\ read(table_service', k2, s, 0).exc
                        = read(table_service, k2, s, 0).exc]_vars

KeyIsolationWitness ==
    /\ last.op = "delete" /\ last.exc = ""
    /\ last.calls = <<Call("delete_entity", "")>>
    /\ \E k2 \in Keys \ {last.key} :
          /\ Row(k2) # NoEntity
          /\ read(table_service, k2, written[k2].secret, 0).ret
                = written[k2].value

\* Base64 as RFC 4648 writes it: characters of the alphabet only, in groups
\* of four, with at most two padding characters, at the very end.
ValidBase64(t) ==
    /\ Len(t) % 4 = 0
    /\ \A i \in DOMAIN t :
          \/ t[i] \in 0..63
          \/ /\ t[i] = B64Pad
             /\ i > Len(t) - 2
             /\ \A j \in i..Len(t) : t[j] = B64Pad

\* What decrypt is given in a state: the stored fields of the key.
Fields == {Row(TamperKey)[f] : f \in {"Data", "Tag", "Nonce"}}
Unchanged(f) == Row(TamperKey)[f] = written[TamperKey].entity[f]
\* The field does not decode at lines 83-87: b64decode, which skips the
\* characters from outside the alphabet, finds the padding incorrect.
Undecodable(t) == ~b64decode(t).ok

\* C15: decrypt, given the stored Data, Tag and Nonce and a secret
\* of valid length, raises binascii.Error when one of the three is not valid
\* base64, and only then; given three valid fields of which Data or Tag is
\* not as written, or another secret than the writer's, it returns None and
\* does not raise.
DecryptOutcomes ==
    \A s \in {x \in Secrets : ValidSecret(x)} :
        (table_service.exists /\ Row(TamperKey) # NoEntity)
        => LET e == Row(TamperKey)
               w == written[TamperKey]
               r == decrypt(e.Data, e.Tag, e.Nonce, s)
               wellformed == /\ ValidBase64(e.Data) /\ ValidBase64(e.Tag)
                             /\ ValidBase64(e.Nonce)
           IN  /\ ~wellformed => r.exc = "binascii.Error"
               /\ r.exc = "binascii.Error" => ~wellformed
               /\ (wellformed /\ (Changed(TamperKey) \/ s # w.secret))
                     => (r.exc = "" /\ ~r.some)

\* What does hold of decrypt: it raises binascii.Error only when one of the three
\* fields is not valid base64, and does raise it when a field does not
\* decode once the characters from outside the alphabet are skipped, as
\* when one of its characters was replaced by such a character (a field
\* that only has some of those added decodes as before).  Three valid
\* fields with a Nonce that is not empty never make it raise: it returns
\* None when Data, Tag or Nonce is not as written or the secret is not the
\* writer's, and the plaintext otherwise.
DecryptOutcomesLenient ==
    \A s \in {x \in Secrets : ValidSecret(x)} :
        (table_service.exists /\ Row(TamperKey) # NoEntity)
        => LET e == Row(TamperKey)
               w == written[TamperKey]
               r == decrypt(e.Data, e.Tag, e.Nonce, s)
               wellformed == \A t \in Fields : ValidBase64(t)
               asWritten == /\ \A f \in {"Data", "Tag", "Nonce"} : Unchanged(f)
                            /\ s = w.secret
           IN  /\ r.exc = "binascii.Error" => ~wellformed
               /\ (\E t \in Fields : Undecodable(t))
                     => r.exc \in {"binascii.Error", "ValueError"}
               /\ Undecodable(e.Nonce) => r.exc = "binascii.Error"
               /\ (last.op = "tamper" /\ last.calls[1].exc = "garble")
                     => Undecodable(e[last.calls[1].call])
               /\ r.exc = "ValueError" => e.Nonce = <<>>
               /\ (wellformed /\ e.Nonce # <<>>)
                     => /\ r.exc = ""
                        /\ ~asWritten => ~r.some
                        /\ asWritten
                              => (r.some /\ r.plaintext
                                    = Utf8Encode(json_dumps(w.value)))

\* The callers in a write, and those that touch a key.
Writers == {t \in Threads : threads[t].op = "write"}
AllDone == \A t \in Threads : threads[t].pc = "done"

\* C12: whatever the interleaving of the callers' writes, reads and deletes,
\* a row of the table is, in Data, Tag and Nonce, the row of one write call;
\* a read that returned gave None or the value passed to a write of its key
\* under its secret; and the row of a key is that of the upsert applied last
\* (none after a delete served later), so also once all callers are done.
NoPartialWrite ==
    /\ \A k \in Keys :
          (table_service.exists /\ Row(k) # NoEntity)
          => /\ \E w \in Writers : threads[w].key = k /\ Row(k) = Expected(w)
             /\ Row(k) = applied[k]
    /\ \A k \in Keys :
          (~table_service.exists \/ Row(k) = NoEntity) => applied[k] = NoEntity
    /\ \A t \in Threads :
          (threads[t].op = "read" /\ threads[t].pc = "done")
          => /\ threads[t].exc = ""
             /\ \/ threads[t].ret = PyNone
                \/ \E w \in Writers :
                      /\ threads[w].key = threads[t].key
                      /\ threads[w].secret = threads[t].secret
                      /\ threads[w].value = threads[t].ret

\* Two callers wrote one key under one secret with different values, both
\* by way of create_table and a retry, and a third read the first one's
\* value between the two retries; the row is the second one's.
NoPartialWriteWitness ==
    /\ AllDone
    /\ threads[1].op = "write" /\ threads[2].op = "write"
    /\ threads[3].op = "read"
    /\ threads[1].key = threads[2].key /\ threads[3].key = threads[1].key
    /\ threads[1].secret = threads[2].secret
    /\ threads[3].secret = threads[1].secret
    /\ threads[1].value # threads[2].value
    /\ Len(threads[1].calls) = 3 /\ Len(threads[2].calls) = 3
    /\ threads[3].ret = threads[1].value
    /\ Row(threads[1].key) = Expected(2)

\* C19: with create_table_if_not_exists set, every caller's write returns,
\* also when several found the table missing and each went on to create it;
\* and once all callers are done, the value of a write whose key no other
\* caller wrote or deleted is what a read of the key under its secret gives.
ConcurrentCreate ==
    create_table_if_not_exists
    => /\ \A w \in Writers :
             /\ threads[w].pc = "done" => threads[w].exc = ""
             /\ threads[w].pc = "retry" => table_service.exists
       /\ AllDone
             => \A w \in Writers :
                   (\A u \in Threads \ {w} :
                        \/ threads[u].op = "read"
                        \/ threads[u].key # threads[w].key)
                   => /\ read(table_service, threads[w].key,
                              threads[w].secret, 0).exc = ""
                      /\ read(table_service, threads[w].key,
                              threads[w].secret, 0).ret = threads[w].value

\* Two callers wrote different keys, each found the table missing, each
\* called create_table and each retried its upsert.
ConcurrentCreateWitness ==
    /\ create_table_if_not_exists /\ AllDone
    /\ \E a, b \in Writers :
          /\ a # b /\ threads[a].key # threads[b].key
          /\ \A w \in {a, b} :
                threads[w].calls =
                    <<Call("insert_or_merge_entity", Missing),
                      Call("create_table", ""),
                      Call("insert_or_merge_entity", "")>>
          /\ Row(threads[a].key) = Expected(a)
          /\ Row(threads[b].key) = Expected(b)

====
